---- MODULE Spec2Model ----
(***************************************************************************)
(* nestjs-aborter: AborterInterceptor (src/src/interceptors/               *)
(* aborter.interceptor.ts).  One HTTP request travelling through           *)
(* intercept(): the AbortController attached to it, the 'close'/'error'    *)
(* transport listeners, the race of the handler against the abort          *)
(* observable and the timeout observable, catchError and finalize; the     *)
(* route filter shouldSkipRoute; and withAbort (src/src/utils/index.ts),   *)
(* the promise wrapper the request's code arms on the request's signal.    *)
(*                                                                         *)
(* JavaScript values are records [t, n, s]: t is the type tag, n the       *)
(* number, s the text as a sequence of string pieces (<< >> is '').        *)
(* Every operator below is a function from the request record (and the     *)
(* interceptor options) to the request record after the call, so that one  *)
(* action is one whole synchronous turn of the event loop.                 *)
(***************************************************************************)
EXTENDS Integers, Sequences, FiniteSets, TLC

VARIABLES options, request, now, peer

vars == <<options, request, now, peer>>

-----------------------------------------------------------------------------
(* Bounds of the model *)

\* largest positive timeout (ms) a route or the global configuration sets
MaxTimeout == 2

\* the clock runs from 0 to MaxTime
MaxTime == 3

-----------------------------------------------------------------------------
(* JavaScript values *)

Undefined == [t |-> "undefined", n |-> 0, s |-> << >>]

Null == [t |-> "null", n |-> 0, s |-> << >>]

Num(k) == [t |-> "number", n |-> k, s |-> << >>]

Str(text) == [t |-> "string", n |-> 0, s |-> text]

\* `new DOMException('This operation was aborted', 'AbortError')`, the reason
\* AbortController.abort() records when it is called without one
DOMAbortError == [t |-> "object", n |-> 0, s |-> <<"AbortError">>]

\* ToBoolean
Truthy(v) ==
  CASE v.t = "number" -> v.n # 0
    [] v.t = "string" -> v.s # << >>
    [] v.t = "object" -> TRUE
    [] OTHER -> FALSE

\* a || b
Or(a, b) == IF Truthy(a) THEN a ELSE b

\* a ?? b
Nullish(a, b) == IF a.t \in {"undefined", "null"} THEN b ELSE a

\* new Error(message) and new RequestTimeoutException(message)
Error(message) == [cls |-> "Error", message |-> message]

RequestTimeoutException(message) ==
  [cls |-> "RequestTimeoutException", message |-> message]

\* String(v)
String(v) ==
  CASE v.t = "string" -> v.s
    [] v.t = "number" -> <<ToString(v.n)>>
    [] v.t = "object" -> <<"AbortError: This operation was aborted">>
    [] v.t = "null" -> <<"null">>
    [] OTHER -> <<"undefined">>

\* new AbortError(reason) of utils: super(reason || 'Operation aborted')
AbortError(reason) ==
  [cls |-> "AbortError", message |-> Or(reason, Str(<<"Operation aborted">>)).s]

-----------------------------------------------------------------------------
(* Inputs *)

\* numbers a timeout setting may hold: negative, zero, positive
TimeoutValues == {-1, 0} \cup (1..MaxTimeout)

\* options.timeout
GlobalTimeouts == {Undefined} \cup {Num(k) : k \in TimeoutValues}

\* the metadata @RequestTimeout(ms | null) leaves on the route handler
RouteTimeouts == {Undefined, Null} \cup {Num(k) : k \in TimeoutValues}

\* options.reason
Reasons == {Undefined, Str(<< >>), Str(<<"Custom reason">>)}

\* error.message of a handler error or of a transport error
Messages == {<< >>, <<"boom">>}

\* the argument of an application call abortController.abort(reason)
AppReasons == {Undefined, Str(<<"app">>)}

\* the values a handler produces
HandlerValues == {<<"success">>, <<"other">>}

\* request.path, character by character
PathTest == <<"/", "t", "e", "s", "t">>

PathHealth == <<"/", "h", "e", "a", "l", "t", "h">>

PathHealthz == <<"/", "h", "e", "a", "l", "t", "h", "z">>

PathApiHealth == <<"/", "a", "p", "i", "/", "h", "e", "a", "l", "t", "h">>

Paths == {PathTest, PathHealth, PathHealthz, PathApiHealth}

\* request.method as the transport or a mock reports it
Methods == {"GET", "OPTIONS", "options"}

\* options.skipRoutes: lists of regular-expression sources, character by
\* character; ^ and $ anchor, . matches any character
SkipRoutes ==
  { << >>,
    << PathHealth >>,
    << <<"^">> \o PathHealth \o <<"$">> >>,
    << <<"^", "/", "m", "e", "t", "r", "i", "c", "s", "$">>,
       <<"^", "/", "h", ".", "a", "l", "t", "h">> >> }

\* options.skipMethods
SkipMethods == { << >>, <<"OPTIONS">>, <<"options">>, <<"HEAD", "OPTIONS">> }

\* options.timeout of a withAbort call
OperationTimeouts == {Undefined, Num(0)} \cup {Num(k) : k \in 1..(MaxTimeout + 1)}

\* the options of a withAbort call; a timeoutMessage is read only when the
\* timeout is set
WithAbortOptions ==
  { w \in [timeout : OperationTimeouts,
           timeoutMessage : {Undefined, Str(<<"custom">>)}] :
      w.timeoutMessage # Undefined => Truthy(w.timeout) }

\* what a wrapped promise resolves with
OperationResults == {<<"result">>}

\* what a wrapped promise rejects with: an Error instance, or a plain string
OperationFailures ==
  { [cls |-> "Error", message |-> <<"boom">>],
    [cls |-> "string", message |-> <<"plain">>] }

\* how the handler's observable behaves when it is subscribed
HandlerModes == {"async", "syncNext", "syncNextComplete", "syncError"}


-----------------------------------------------------------------------------
(* The request object and the caller *)

\* no second request is in flight
NoRequest == [phase |-> "absent"]

\* the HTTP response before anything is written to it
NoResponse ==
  [status |-> 0, body |-> [statusCode |-> 0, message |-> << >>, error |-> << >>]]

\* faulty variant: the filter answers with a fixed message
catchFixedMessage(exception) ==
  [ status |-> 408,
    body |-> [statusCode |-> 408, message |-> <<"Request Timeout">>,
              error |-> <<"Request Timeout">>] ]

\* AborterFilter.catch: response.status(408).json({...})
catch(exception) ==
  [ status |-> 408,
    body |-> [statusCode |-> 408, message |-> exception.message,
              error |-> <<"Request Timeout">>] ]

\* a request as the transport hands it over: no controller, no listeners
NewRequest(method, path, routeTimeout) ==
  [ phase |-> "idle",
    method |-> method,
    path |-> path,
    routeTimeout |-> routeTimeout,
    hasController |-> FALSE,
    signal |-> [aborted |-> FALSE, reason |-> Undefined, requestTimeout |-> Undefined],
    abortReason |-> Undefined,
    effectiveTimeout |-> Undefined,
    timeoutArg |-> Null,
    listeners |-> {},
    abortListener |-> FALSE,
    timer |-> [armed |-> FALSE, due |-> 0],
    subscribedAt |-> 0,
    handler |-> "idle",
    handlerSub |-> FALSE,
    out |-> << >>,
    logs |-> << >>,
    obsCalls |-> 0,
    fires |-> 0,
    first |-> "none",
    guards |-> << >>,
    response |-> NoResponse,
    activations |-> << >>,
    thrown |-> FALSE,
    uncaught |-> {},
    id |-> "A",
    controller |-> "none" ]

\* history: the first event on the request after intercept() (a handler
\* notification, the timer, 'close', 'error' or an application abort)
note(r, event) == IF r.first = "none" THEN [r EXCEPT !.first = event] ELSE r

\* the caller's observer: a notification reaches it together with what it can
\* read on the request at that moment (signal.aborted, the transport
\* listeners, request.abortReason); a RequestTimeoutException it receives is
\* handed to AborterFilter (@Catch(RequestTimeoutException))
deliver(r, kind, cls, text) ==
  [r EXCEPT !.out = Append(@,
     [ kind |-> kind, cls |-> cls, text |-> text,
       aborted |-> r.signal.aborted,
       listeners |-> r.listeners,
       abortReason |-> r.abortReason ]),
            !.response =
               IF kind = "error" /\ cls = "RequestTimeoutException"
                 THEN catch(RequestTimeoutException(text))
                 ELSE @]

-----------------------------------------------------------------------------
(* AborterInterceptor *)

RECURSIVE catchError(_, _, _)

\* what a failing custom logger throws: () => { throw new Error('logger failure') }
LoggerFailure == Error(<<"logger failure">>)

\* String.prototype.toUpperCase on the strings the interceptor applies it to
ToUpperCase(type) ==
  CASE type = "cleanup" -> "CLEANUP"
    [] type = "timeout" -> "TIMEOUT"
    [] type = "get" -> "GET"
    [] type = "options" -> "OPTIONS"
    [] type = "head" -> "HEAD"
    [] OTHER -> type

\* faulty variant: the message is logged whether or not logging is enabled
logAbortAlways(o, r, type, reason) ==
  [r EXCEPT !.logs = Append(@,
     <<"[", ToUpperCase(type), "] ", r.method, " ">> \o r.path
        \o <<" - ">> \o reason)]

logAbort(o, r, type, reason) ==
  IF ~o.enableLogging
    THEN r
    ELSE LET r1 == [r EXCEPT !.logs = Append(@,
                      <<"[", ToUpperCase(type), "] ", r.method, " ">> \o r.path
                         \o <<" - ">> \o reason)]
         IN IF o.logger = "throws" THEN [r1 EXCEPT !.thrown = TRUE] ELSE r1

\* faulty variant: the listener ignores request.abortReason
abortHandlerFixedReason(o, r) ==
  LET r1 == catchError(o, [r EXCEPT !.obsCalls = @ + 1],
                       RequestTimeoutException(<<"Request aborted">>))
  IN [r1 EXCEPT !.abortListener = FALSE]

\* the 'abort' listener of createAbortObservable
abortHandler(o, r) ==
  LET reason == Or(r.abortReason, Str(<<"Request aborted">>))
      r1 == catchError(o, [r EXCEPT !.obsCalls = @ + 1],
                       RequestTimeoutException(reason.s))
  IN [r1 EXCEPT !.abortListener = FALSE]

-----------------------------------------------------------------------------
(* withAbort (src/src/utils/index.ts).  A guard is the record of one call:   *)
(* what the call returned (ret), the wrapped promise (operation), the        *)
(* promise the call returned (state, outcome), the timer and the 'abort'     *)
(* listener it holds.                                                        *)

\* resolve(result) of the returned promise: the first settlement stays
resolve(g, result) ==
  IF g.state # "pending"
    THEN [g EXCEPT !.calls = @ + 1]
    ELSE [g EXCEPT !.calls = @ + 1, !.state = "fulfilled",
                   !.outcome = [cls |-> "value", message |-> result]]

\* reject(error) of the returned promise
reject(g, error) ==
  IF g.state # "pending"
    THEN [g EXCEPT !.calls = @ + 1]
    ELSE [g EXCEPT !.calls = @ + 1, !.state = "rejected", !.outcome = error]

\* faulty variant: cleanup leaves the timer and the listener in place
guardCleanupNothing(g) == g

\* const cleanup = () => { clearTimeout(timeoutId); abortController.abort() }:
\* aborting the internal controller removes the listener added with
\* { signal: internalSignal }
guardCleanup(g) == [g EXCEPT !.timer.armed = FALSE, !.listener = FALSE]

\* the 'abort' listener withAbort adds to the signal
guardAbortListener(g, signal) ==
  reject(guardCleanup(g),
         AbortError(IF Truthy(signal.reason)
                      THEN Str(String(signal.reason))
                      ELSE Undefined))

\* faulty variant: the timer always rejects with the default message
guardTimeoutDefaultMessage(g) ==
  reject(guardCleanup(g),
         AbortError(Str(<<"Operation timed out after ", ToString(g.timeout.n), "ms">>)))

\* the setTimeout callback of withAbort
guardTimeout(g) ==
  reject(guardCleanup(g),
         AbortError(Or(g.timeoutMessage,
                       Str(<<"Operation timed out after ", ToString(g.timeout.n), "ms">>))))

\* promise.then((result) => { cleanup(); resolve(result) })
guardThen(g, result) == resolve(guardCleanup(g), result)

\* .catch((error) => { cleanup(); reject(error instanceof Error ? error
\*                                       : new Error(String(error))) })
guardCatch(g, error) ==
  reject(guardCleanup(g),
         IF error.cls = "Error" THEN error ELSE Error(String(Str(error.message))))

\* a guard before the body of withAbort has run
NewGuard(given, w) ==
  [ ret |-> "none",
    given |-> given,
    timeout |-> w.timeout,
    timeoutMessage |-> w.timeoutMessage,
    operation |-> "pending",
    settled |-> [cls |-> "none", message |-> << >>],
    attached |-> FALSE,
    reaction |-> "none",
    listener |-> FALSE,
    timer |-> [armed |-> FALSE, due |-> 0],
    state |-> "pending",
    outcome |-> [cls |-> "none", message |-> << >>],
    calls |-> 0,
    first |-> "none" ]

\* faulty variant: the budget of the operation is not compared with the
\* request timeout
withAbortUnvalidated(given, signal, w, t) ==
  LET g == NewGuard(given, w)
  IN IF ~given /\ ~Truthy(w.timeout)
       THEN [g EXCEPT !.ret = "same"]
     ELSE IF given /\ signal.aborted
       THEN [g EXCEPT !.ret = "rejected", !.state = "rejected",
                      !.outcome = AbortError(IF Truthy(signal.reason)
                                               THEN Str(String(signal.reason))
                                               ELSE Undefined)]
     ELSE [g EXCEPT !.ret = "wrapped", !.attached = TRUE, !.listener = given,
                    !.timer = IF Truthy(w.timeout)
                                THEN [armed |-> TRUE, due |-> t + w.timeout.n]
                                ELSE @]

\* faulty variant: an aborted signal is not looked at before the promise is
\* wrapped
withAbortNoAbortedCheck(given, signal, w, t) ==
  LET g == NewGuard(given, w)
  IN IF /\ Truthy(w.timeout) /\ given /\ Truthy(signal.requestTimeout)
        /\ w.timeout.n > signal.requestTimeout.n
       THEN [g EXCEPT !.ret = "threw", !.outcome =
               Error(<<"Operation timeout (", ToString(w.timeout.n),
                       "ms) cannot exceed request timeout (",
                       ToString(signal.requestTimeout.n), "ms). ",
                       "Use @RequestTimeout(", ToString(w.timeout.n),
                       ") decorator to increase the request timeout.">>)]
     ELSE IF ~given /\ ~Truthy(w.timeout)
       THEN [g EXCEPT !.ret = "same"]
     ELSE [g EXCEPT !.ret = "wrapped", !.attached = TRUE, !.listener = given,
                    !.timer = IF Truthy(w.timeout)
                                THEN [armed |-> TRUE, due |-> t + w.timeout.n]
                                ELSE @]

\* faulty variant: the promise is always wrapped
withAbortAlwaysWraps(given, signal, w, t) ==
  LET g == NewGuard(given, w)
  IN IF /\ Truthy(w.timeout) /\ given /\ Truthy(signal.requestTimeout)
        /\ w.timeout.n > signal.requestTimeout.n
       THEN [g EXCEPT !.ret = "threw", !.outcome =
               Error(<<"Operation timeout (", ToString(w.timeout.n),
                       "ms) cannot exceed request timeout (",
                       ToString(signal.requestTimeout.n), "ms). ",
                       "Use @RequestTimeout(", ToString(w.timeout.n),
                       ") decorator to increase the request timeout.">>)]
     ELSE IF given /\ signal.aborted
       THEN [g EXCEPT !.ret = "rejected", !.state = "rejected",
                      !.outcome = AbortError(IF Truthy(signal.reason)
                                               THEN Str(String(signal.reason))
                                               ELSE Undefined)]
     ELSE [g EXCEPT !.ret = "wrapped", !.attached = TRUE, !.listener = given,
                    !.timer = IF Truthy(w.timeout)
                                THEN [armed |-> TRUE, due |-> t + w.timeout.n]
                                ELSE @]

\* faulty variant: the aborted signal is looked at before the budget
withAbortAbortedFirst(given, signal, w, t) ==
  LET g == NewGuard(given, w)
  IN IF given /\ signal.aborted
       THEN [g EXCEPT !.ret = "rejected", !.state = "rejected",
                      !.outcome = AbortError(IF Truthy(signal.reason)
                                               THEN Str(String(signal.reason))
                                               ELSE Undefined)]
     ELSE IF /\ Truthy(w.timeout) /\ given /\ Truthy(signal.requestTimeout)
             /\ w.timeout.n > signal.requestTimeout.n
       THEN [g EXCEPT !.ret = "threw", !.outcome =
               Error(<<"Operation timeout (", ToString(w.timeout.n),
                       "ms) cannot exceed request timeout (",
                       ToString(signal.requestTimeout.n), "ms). ",
                       "Use @RequestTimeout(", ToString(w.timeout.n),
                       ") decorator to increase the request timeout.">>)]
     ELSE IF ~given /\ ~Truthy(w.timeout)
       THEN [g EXCEPT !.ret = "same"]
     ELSE [g EXCEPT !.ret = "wrapped", !.attached = TRUE, !.listener = given,
                    !.timer = IF Truthy(w.timeout)
                                THEN [armed |-> TRUE, due |-> t + w.timeout.n]
                                ELSE @]

\* faulty variant: a budget equal to the request timeout is refused too
withAbortStrictBudget(given, signal, w, t) ==
  LET g == NewGuard(given, w)
  IN IF /\ Truthy(w.timeout) /\ given /\ Truthy(signal.requestTimeout)
        /\ w.timeout.n >= signal.requestTimeout.n
       THEN [g EXCEPT !.ret = "threw", !.outcome =
               Error(<<"Operation timeout (", ToString(w.timeout.n),
                       "ms) cannot exceed request timeout (",
                       ToString(signal.requestTimeout.n), "ms). ",
                       "Use @RequestTimeout(", ToString(w.timeout.n),
                       ") decorator to increase the request timeout.">>)]
     ELSE IF ~given /\ ~Truthy(w.timeout)
       THEN [g EXCEPT !.ret = "same"]
     ELSE IF given /\ signal.aborted
       THEN [g EXCEPT !.ret = "rejected", !.state = "rejected",
                      !.outcome = AbortError(IF Truthy(signal.reason)
                                               THEN Str(String(signal.reason))
                                               ELSE Undefined)]
     ELSE [g EXCEPT !.ret = "wrapped", !.attached = TRUE, !.listener = given,
                    !.timer = IF Truthy(w.timeout)
                                THEN [armed |-> TRUE, due |-> t + w.timeout.n]
                                ELSE @]

\* withAbort(promise, signal, w) called at time t; `given` tells whether a
\* signal is passed.  ret is what the call does: "threw" (outcome holds the
\* error thrown), "same" (the promise itself is returned), "rejected"
\* (Promise.reject(new AbortError(...))), "wrapped" (a new promise)
withAbort(given, signal, w, t) ==
  LET g == NewGuard(given, w)
  IN IF /\ Truthy(w.timeout) /\ given /\ Truthy(signal.requestTimeout)
        /\ w.timeout.n > signal.requestTimeout.n
       THEN [g EXCEPT !.ret = "threw", !.outcome =
               Error(<<"Operation timeout (", ToString(w.timeout.n),
                       "ms) cannot exceed request timeout (",
                       ToString(signal.requestTimeout.n), "ms). ",
                       "Use @RequestTimeout(", ToString(w.timeout.n),
                       ") decorator to increase the request timeout.">>)]
     ELSE IF ~given /\ ~Truthy(w.timeout)
       THEN [g EXCEPT !.ret = "same"]
     ELSE IF given /\ signal.aborted
       THEN [g EXCEPT !.ret = "rejected", !.state = "rejected",
                      !.outcome = AbortError(IF Truthy(signal.reason)
                                               THEN Str(String(signal.reason))
                                               ELSE Undefined)]
     ELSE [g EXCEPT !.ret = "wrapped", !.attached = TRUE, !.listener = given,
                    !.timer = IF Truthy(w.timeout)
                                THEN [armed |-> TRUE, due |-> t + w.timeout.n]
                                ELSE @]

\* the wrapped promise resolves: the promise returned as it is is that
\* promise; for a wrapping promise the then-callback is queued as a microtask
\* and has not run yet
operationResolved(g, result) ==
  LET g1 == [g EXCEPT !.operation = "resolved",
                      !.settled = [cls |-> "value", message |-> result]]
  IN CASE g.ret = "same" ->
            [g1 EXCEPT !.state = "fulfilled", !.outcome = g1.settled]
       [] g.attached -> [g1 EXCEPT !.reaction = "then"]
       [] OTHER -> g1

\* the wrapped promise rejects: the catch-callback is queued
operationRejected(g, error) ==
  LET g1 == [g EXCEPT !.operation = "rejected", !.settled = error]
  IN CASE g.ret = "same" ->
            [g1 EXCEPT !.state = "rejected", !.outcome = error]
       [] g.attached -> [g1 EXCEPT !.reaction = "catch"]
       [] OTHER -> g1

\* faulty variant: a callback that finds the guard settled still takes the
\* promise's outcome
guardReactionOverwrites(g) ==
  [guardCleanup(g) EXCEPT !.reaction = "none", !.calls = @ + 1,
                          !.state = IF g.reaction = "then" THEN "fulfilled"
                                                           ELSE "rejected",
                          !.outcome = g.settled]

\* promise.then(...).catch(...): the queued callback of the settled promise
\* runs
guardReaction(g) ==
  IF g.reaction = "then"
    THEN guardThen([g EXCEPT !.reaction = "none"], g.settled.message)
    ELSE guardCatch([g EXCEPT !.reaction = "none"], g.settled)

\* a then/catch callback of a guard of the request is queued: microtasks run
\* at the end of the turn that queued them, before any timer and before the
\* next event of the loop
microtaskQueued(r) ==
  \E i \in 1..Len(r.guards) : r.guards[i].reaction # "none"

\* history: the first event of a guard after the call
noteGuard(g, event) == IF g.first = "none" THEN [g EXCEPT !.first = event] ELSE g

\* faulty variant: the 'abort' event reaches the first listener only
dispatchGuardsFirstOnly(r) ==
  [r EXCEPT !.guards =
     [i \in 1..Len(r.guards) |->
        IF i = 1 /\ r.guards[i].listener
          THEN guardAbortListener(noteGuard(r.guards[i], "abort"), r.signal)
          ELSE r.guards[i]]]

\* the 'abort' event reaches the listeners the guards hold on the signal
dispatchGuards(r) ==
  [r EXCEPT !.guards =
     [i \in 1..Len(r.guards) |->
        IF r.guards[i].listener
          THEN guardAbortListener(noteGuard(r.guards[i], "abort"), r.signal)
          ELSE r.guards[i]]]

-----------------------------------------------------------------------------
(* AborterInterceptor, continued *)

\* abortController.abort(reason): the platform's AbortController fires once,
\* records the reason and dispatches 'abort' to the listeners registered then
abortControllerAbort(o, r, reason) ==
  IF r.signal.aborted
    THEN r
    ELSE LET r1 == [r EXCEPT !.signal.aborted = TRUE,
                             !.signal.reason =
                                IF reason = Undefined THEN DOMAbortError ELSE reason,
                             !.fires = @ + 1]
             r2 == dispatchGuards(r1)
         IN IF r2.abortListener THEN abortHandler(o, r2) ELSE r2

\* faulty variant: the controller is fired before the reason is recorded on
\* the request
abortRecordsLate(o, r, reason) ==
  IF r.signal.aborted
    THEN r
    ELSE LET abortReason == Or(Or(reason, o.reason), Str(<<"Request terminated">>))
             r2 == abortControllerAbort(o, r, abortReason)
         IN logAbort(o, [r2 EXCEPT !.abortReason = abortReason],
                     "cleanup", abortReason.s)

\* const abort = (reason?: string) => { ... } of setupRequestCleanup
abort(o, r, reason) ==
  IF r.signal.aborted
    THEN r
    ELSE LET abortReason == Or(Or(reason, o.reason), Str(<<"Request terminated">>))
             r1 == [r EXCEPT !.abortReason = abortReason]
             r2 == abortControllerAbort(o, r1, abortReason)
         IN logAbort(o, r2, "cleanup", abortReason.s)

closeHandler(o, r) == abort(o, r, Str(<<"Client disconnected">>))

errorHandler(o, r, message) == abort(o, r, Str(<<"Request error: ">> \o message))

\* request.off('close', closeHandler); request.off('error', errorHandler):
\* not reached when abort() has thrown
off(r) == IF r.thrown THEN r ELSE [r EXCEPT !.listeners = @ \ {"close", "error"}]

\* the function setupRequestCleanup returns
cleanup(o, r, reason) == off(abort(o, r, Or(reason, Str(<< >>))))

\* faulty variant: the teardown of the race leaves the timer running
unsubscribeRaceKeepsTimer(r) ==
  [r EXCEPT !.handlerSub = FALSE, !.abortListener = FALSE]

\* race(...) is unsubscribed: the handler's subscription is closed,
\* removeEventListener('abort', handler), the timer is cleared
unsubscribeRace(r) ==
  [r EXCEPT !.handlerSub = FALSE, !.abortListener = FALSE, !.timer.armed = FALSE]

\* faulty variant: the pipe without finalize(cleanup)
finalizeWithoutCleanup(o, r) == [unsubscribeRace(r) EXCEPT !.phase = "done"]

\* finalize(cleanup): runs when the caller's subscription is torn down, after
\* the race's own teardown
finalize(o, r) ==
  [cleanup(o, unsubscribeRace(r), Undefined) EXCEPT !.phase = "done"]

\* faulty variant: catchError rethrows without calling cleanup first
catchErrorWithoutCleanup(o, r, error) ==
  IF r.phase # "racing"
    THEN r
    ELSE finalize(o, deliver(unsubscribeRace([r EXCEPT !.phase = "closing"]),
                             "error", error.cls, error.message))

\* faulty variant: the handler's error is rethrown as a RequestTimeoutException
catchErrorWrapping(o, r, error) ==
  IF r.phase # "racing"
    THEN r
    ELSE LET r1 == [r EXCEPT !.phase = "closing"]
             r2 == cleanup(o, r1, Str(<<"Handler error: ">> \o error.message))
             r3 == unsubscribeRace(r2)
             r4 == deliver(r3, "error", "RequestTimeoutException", error.message)
         IN finalize(o, r4)

\* faulty variant: catchError calls cleanup() without the handler-error reason
catchErrorDefaultReason(o, r, error) ==
  IF r.phase # "racing"
    THEN r
    ELSE LET r1 == [r EXCEPT !.phase = "closing"]
             r2 == cleanup(o, r1, Undefined)
             r3 == unsubscribeRace(r2)
             r4 == deliver(r3, "error", error.cls, error.message)
         IN finalize(o, r4)

\* the observable of an exempt request is next.handle() itself: the caller's
\* observer is the handler's subscriber ("direct")
directNext(r, value) ==
  IF ~r.handlerSub THEN r ELSE deliver(r, "next", "value", value)

directComplete(r) ==
  IF ~r.handlerSub
    THEN r
    ELSE [deliver(r, "complete", "none", << >>) EXCEPT !.handlerSub = FALSE,
                                                       !.phase = "done"]

directError(r, error) ==
  IF ~r.handlerSub
    THEN r
    ELSE [deliver(r, "error", error.cls, error.message) EXCEPT !.handlerSub = FALSE,
                                                               !.phase = "done"]

\* return throwError(() => error) of the catchError selector, or the error
\* the selector itself has thrown: the race is torn down and the caller's
\* observer receives the error
throwError(r, error) ==
  LET rethrown == IF r.thrown THEN LoggerFailure ELSE error
  IN deliver(unsubscribeRace([r EXCEPT !.thrown = FALSE]),
             "error", rethrown.cls, rethrown.message)

\* an error notification of one of the three branches enters
\* .pipe(catchError(...), finalize(cleanup)); a stopped subscriber drops it
catchError(o, r, error) ==
  IF r.phase # "racing"
    THEN r
    ELSE LET r1 == [r EXCEPT !.phase = "closing"]
             r2 == cleanup(o, r1, Str(<<"Handler error: ">> \o error.message))
         IN finalize(o, throwError(r2, error))

\* a value of the handler reaches race(): the first value elects the handler
\* and unsubscribes the other two branches
raceNext(o, r, value) ==
  IF r.phase # "racing" \/ ~r.handlerSub
    THEN r
    ELSE deliver([r EXCEPT !.abortListener = FALSE, !.timer.armed = FALSE],
                 "next", "value", value)

\* the handler completes
raceComplete(o, r) ==
  IF r.phase # "racing" \/ ~r.handlerSub
    THEN r
    ELSE finalize(o, deliver([r EXCEPT !.phase = "closing"], "complete", "none", << >>))

\* the handler fails
raceError(o, r, error) ==
  IF ~r.handlerSub THEN r ELSE catchError(o, r, error)

\* the handler's observable notifies whoever subscribed to it: the caller
\* (exempt request) or race()
handlerNext(o, r, value) ==
  IF r.phase = "direct" THEN directNext(r, value) ELSE raceNext(o, r, value)

handlerComplete(o, r) ==
  IF r.phase = "direct" THEN directComplete(r) ELSE raceComplete(o, r)

handlerError(o, r, error) ==
  IF r.phase = "direct" THEN directError(r, error) ELSE raceError(o, r, error)

\* faulty variant: `routeTimeout || this.options.timeout`, a route 0 falls through
getEffectiveTimeoutTruthy(o, r) ==
  IF Truthy(r.routeTimeout)
    THEN r.routeTimeout
    ELSE Nullish(o.timeout, Null)

getEffectiveTimeout(o, r) ==
  IF r.routeTimeout # Undefined
    THEN r.routeTimeout
    ELSE Nullish(o.timeout, Null)

\* faulty variant: one AbortController serves every request
attachAbortControllerShared(r) ==
  [r EXCEPT !.hasController = TRUE,
            !.controller = "shared",
            !.signal = [aborted |-> FALSE, reason |-> Undefined,
                        requestTimeout |-> Undefined]]

\* request.abortController = new AbortController(): the controller is named
\* after the request it is created for
attachAbortController(r) ==
  [r EXCEPT !.hasController = TRUE,
            !.controller = r.id,
            !.signal = [aborted |-> FALSE, reason |-> Undefined,
                        requestTimeout |-> Undefined]]

setupRequestCleanup(r) ==
  [r EXCEPT !.listeners = @ \cup {"close", "error"}]

RECURSIVE matchHere(_, _, _, _)

\* the regular expression `pattern`, from its character pi on, matches `path`
\* starting at position si
matchHere(pattern, pi, path, si) ==
  IF pi > Len(pattern)
    THEN TRUE
    ELSE CASE pattern[pi] = "^" ->
                si = 1 /\ matchHere(pattern, pi + 1, path, si)
           [] pattern[pi] = "$" ->
                si = Len(path) + 1 /\ matchHere(pattern, pi + 1, path, si)
           [] pattern[pi] = "." ->
                si <= Len(path) /\ matchHere(pattern, pi + 1, path, si + 1)
           [] OTHER ->
                /\ si <= Len(path)
                /\ path[si] = pattern[pi]
                /\ matchHere(pattern, pi + 1, path, si + 1)

\* request.path.match(new RegExp(route)) is not null: the pattern matches
\* somewhere in the path
match(path, route) ==
  \E si \in 1..(Len(path) + 1) : matchHere(route, 1, path, si)

\* Array.prototype.includes
includes(list, x) == \E i \in 1..Len(list) : list[i] = x

shouldSkipRoute(o, r) ==
  \/ \E i \in 1..Len(o.skipRoutes) : match(r.path, o.skipRoutes[i])
  \/ includes(o.skipMethods, ToUpperCase(r.method))

\* faulty variant: the controller and the listeners are set up before the
\* exemption is looked at
interceptAttachFirst(o, r) ==
  LET r1 == attachAbortController(r)
      effectiveTimeout == getEffectiveTimeout(o, r1)
      r2 == [r1 EXCEPT !.effectiveTimeout = Nullish(effectiveTimeout, Undefined)]
      r3 == IF Truthy(effectiveTimeout)
              THEN [r2 EXCEPT !.signal.requestTimeout = effectiveTimeout]
              ELSE r2
      r4 == setupRequestCleanup(r3)
  IN IF shouldSkipRoute(o, r)
       THEN [r4 EXCEPT !.phase = "passthrough"]
       ELSE [r4 EXCEPT !.timeoutArg = effectiveTimeout, !.phase = "bound"]

\* faulty variant: the resolved timeout is recorded on the signal whenever it
\* is a number, 0 included
interceptRecordsNumber(o, r) ==
  IF shouldSkipRoute(o, r)
    THEN [r EXCEPT !.phase = "passthrough"]
    ELSE LET r1 == attachAbortController(r)
             effectiveTimeout == getEffectiveTimeout(o, r1)
             r2 == [r1 EXCEPT !.effectiveTimeout = Nullish(effectiveTimeout, Undefined)]
             r3 == IF effectiveTimeout.t = "number"
                     THEN [r2 EXCEPT !.signal.requestTimeout = effectiveTimeout]
                     ELSE r2
             r4 == setupRequestCleanup(r3)
         IN [r4 EXCEPT !.timeoutArg = effectiveTimeout, !.phase = "bound"]

\* intercept() up to the return of the cold observable: next.handle() itself
\* for an exempt request ("passthrough"), the piped race otherwise ("bound")
intercept(o, r) ==
  IF shouldSkipRoute(o, r)
    THEN [r EXCEPT !.phase = "passthrough"]
    ELSE LET r1 == attachAbortController(r)
             effectiveTimeout == getEffectiveTimeout(o, r1)
             r2 == [r1 EXCEPT !.effectiveTimeout = Nullish(effectiveTimeout, Undefined)]
             r3 == IF Truthy(effectiveTimeout)
                     THEN [r2 EXCEPT !.signal.requestTimeout = effectiveTimeout]
                     ELSE r2
             r4 == setupRequestCleanup(r3)
         IN [r4 EXCEPT !.timeoutArg = effectiveTimeout, !.phase = "bound"]

\* subscribing createAbortObservable: addEventListener('abort', handler)
createAbortObservable(r) == [r EXCEPT !.abortListener = TRUE]

\* faulty variant: only a null timeout disables the timer
createTimeoutObservableNullOnly(r, t) ==
  IF r.timeoutArg = Null
    THEN r
    ELSE [r EXCEPT !.timer = [armed |-> TRUE, due |-> t + r.timeoutArg.n]]

\* subscribing createTimeoutObservable at time t: timer(effectiveTimeout), or
\* an observable that never emits
createTimeoutObservable(r, t) ==
  IF ~Truthy(r.timeoutArg) \/ r.timeoutArg.n <= 0
    THEN r
    ELSE [r EXCEPT !.timer = [armed |-> TRUE, due |-> t + r.timeoutArg.n]]

\* faulty variant: the timer aborts without recording the reason on the request
timeoutExpiredUnrecorded(o, r) ==
  LET reason == Str(<<"Request timed out after ", ToString(r.timeoutArg.n), "ms">>)
      r1 == [r EXCEPT !.timer.armed = FALSE]
      r2 == abortControllerAbort(o, r1, reason)
      r3 == logAbort(o, r2, "timeout", reason.s)
  IN catchError(o, r3, RequestTimeoutException(reason.s))

\* the timeout branch errors: with the error the mergeMap callback returns
\* through throwError, or with the one the callback has thrown
mergeMapError(o, r, error) ==
  catchError(o, [r EXCEPT !.thrown = FALSE], IF r.thrown THEN LoggerFailure ELSE error)

\* the mergeMap callback of createTimeoutObservable, run when the timer expires
timeoutExpired(o, r) ==
  LET reason == Str(<<"Request timed out after ", ToString(r.timeoutArg.n), "ms">>)
      r1 == [r EXCEPT !.abortReason = reason, !.timer.armed = FALSE]
      r2 == abortControllerAbort(o, r1, reason)
      r3 == logAbort(o, r2, "timeout", reason.s)
  IN mergeMapError(o, r3, RequestTimeoutException(reason.s))

\* finalize(cleanup) on a handler that has completed during the subscription:
\* the callback is added to a subscriber that is closed already and runs at
\* once, inside the subscription of the operator, whose try/catch hands an
\* exception of cleanup to the error() of the stopped subscriber, which drops it
finalizeWhileSubscribing(r) == [r EXCEPT !.thrown = FALSE]

\* the caller subscribes at time t: race() subscribes the handler, then the
\* abort observable, then the timeout observable, and stops subscribing as
\* soon as one of them has emitted or the subscriber is closed
subscribe(o, r, mode, message, t) ==
  LET r1 == [r EXCEPT !.phase = "racing", !.handlerSub = TRUE, !.subscribedAt = t]
  IN CASE mode = "syncNext" ->
            raceNext(o, [r1 EXCEPT !.handler = "emitted"], <<"success">>)
       [] mode = "syncNextComplete" ->
            finalizeWhileSubscribing(
              raceComplete(o, raceNext(o, [r1 EXCEPT !.handler = "completed"],
                                       <<"success">>)))
       [] mode = "syncError" ->
            raceError(o, [r1 EXCEPT !.handler = "errored"], Error(message))
       [] OTHER ->
            createTimeoutObservable(
              createAbortObservable([r1 EXCEPT !.handler = "pending"]), t)

\* the caller subscribes to the observable of an exempt request
subscribeDirect(r, mode, message) ==
  LET r1 == [r EXCEPT !.phase = "direct", !.handlerSub = TRUE]
  IN CASE mode = "syncNext" ->
            directNext([r1 EXCEPT !.handler = "emitted"], <<"success">>)
       [] mode = "syncNextComplete" ->
            directComplete(directNext([r1 EXCEPT !.handler = "completed"], <<"success">>))
       [] mode = "syncError" ->
            directError([r1 EXCEPT !.handler = "errored"], Error(message))
       [] OTHER -> [r1 EXCEPT !.handler = "pending"]

\* the caller unsubscribes before the observable has terminated
unsubscribe(o, r) ==
  IF r.phase = "direct"
    THEN [r EXCEPT !.handlerSub = FALSE, !.phase = "done"]
    ELSE finalize(o, r)

-----------------------------------------------------------------------------
(* Actions: one synchronous turn each *)

\* an exception nothing has caught leaves the turn through the call that
\* started it: request.emit('close' | 'error'), the handler's complete() or
\* the caller's unsubscribe(); nothing leaves subscribe()
escapes(r, call) ==
  IF r.thrown THEN [r EXCEPT !.thrown = FALSE, !.uncaught = @ \cup {call}] ELSE r

\* interceptor options that exempt no request
Options ==
  [timeout : GlobalTimeouts, reason : Reasons, enableLogging : BOOLEAN, logger : {"default"},
   skipRoutes : {<< >>}, skipMethods : {<< >>}]

Init ==
  /\ options \in Options
  /\ request \in {NewRequest("GET", PathTest, rt) : rt \in RouteTimeouts}
  /\ now = 0
  /\ peer = NoRequest

\* interceptor options with route and method exemptions
SkipOptions ==
  [timeout : {Undefined, Num(1)}, reason : {Undefined}, enableLogging : {TRUE}, logger : {"default"},
   skipRoutes : SkipRoutes, skipMethods : SkipMethods]

InitSkip ==
  /\ options \in SkipOptions
  /\ request \in {NewRequest(method, path, Undefined) :
                     method \in Methods, path \in Paths}
  /\ now = 0
  /\ peer = NoRequest

\* the framework calls interceptor.intercept(context, next)
Intercept ==
  /\ request.phase = "idle"
  /\ request' = intercept(options, request)
  /\ UNCHANGED <<options, now, peer>>

\* the framework subscribes to the observable intercept() returned
Subscribe ==
  /\ request.phase \in {"bound", "passthrough"}
  /\ \E mode \in HandlerModes, message \in Messages :
       /\ mode # "syncError" => message = << >>
       /\ LET r == IF mode = "async" THEN request ELSE note(request, "handler")
          IN request' = IF request.phase = "passthrough"
                          THEN subscribeDirect(r, mode, message)
                          ELSE subscribe(options, r, mode, message, now)
  /\ UNCHANGED <<options, now, peer>>

\* the handler's work goes on whether or not the race still listens to it
HandlerNextOf(value) ==
  /\ request.handler = "pending"
  /\ request' = handlerNext(options,
                             [note(request, "handler") EXCEPT !.handler = "emitted"],
                             value)
  /\ UNCHANGED <<options, now, peer>>

HandlerNext == \E value \in HandlerValues : HandlerNextOf(value)

HandlerComplete ==
  /\ request.handler \in {"pending", "emitted"}
  /\ request' = escapes(handlerComplete(options,
                                 [note(request, "handler") EXCEPT !.handler = "completed"]),
                        "complete")
  /\ UNCHANGED <<options, now, peer>>

HandlerErrorOf(message) ==
  /\ request.handler \in {"pending", "emitted"}
  /\ request' = handlerError(options,
                              [note(request, "handler") EXCEPT !.handler = "errored"],
                              Error(message))
  /\ UNCHANGED <<options, now, peer>>

HandlerError == \E message \in Messages : HandlerErrorOf(message)

\* request.emit('close')
Close ==
  /\ request.phase # "idle"
  /\ request' = IF "close" \in request.listeners
                  THEN escapes(closeHandler(options, note(request, "close")), "close")
                  ELSE note(request, "close")
  /\ UNCHANGED <<options, now, peer>>

\* request.emit('error', new Error(message))
TransportErrorOf(message) ==
  /\ request.phase # "idle"
  /\ request' = IF "error" \in request.listeners
                  THEN escapes(errorHandler(options, note(request, "error"), message),
                               "error")
                  ELSE note(request, "error")
  /\ UNCHANGED <<options, now, peer>>

TransportError == \E message \in Messages : TransportErrorOf(message)

\* application code calls request.abortController.abort(reason)
AppAbort ==
  /\ request.hasController
  /\ \E reason \in AppReasons :
       request' = abortControllerAbort(options, note(request, "abort"), reason)
  /\ UNCHANGED <<options, now, peer>>

\* the timer of the timeout branch expires
TimerFire ==
  /\ request.timer.armed
  /\ now >= request.timer.due
  /\ ~microtaskQueued(request)
  /\ request' = timeoutExpired(options, note(request, "timeout"))
  /\ UNCHANGED <<options, now, peer>>

\* the caller unsubscribes
Unsubscribe ==
  /\ request.phase \in {"racing", "direct"}
  /\ request' = escapes(unsubscribe(options, request), "unsubscribe")
  /\ UNCHANGED <<options, now, peer>>

\* a timer of the request or of one of its guards has expired at time t
timerDue(r, t) ==
  \/ r.timer.armed /\ t >= r.timer.due
  \/ \E i \in 1..Len(r.guards) :
        r.guards[i].timer.armed /\ t >= r.guards[i].timer.due

\* one millisecond passes; an expired timer runs before the clock moves on
Tick ==
  /\ now < MaxTime
  /\ ~timerDue(request, now)
  /\ ~microtaskQueued(request)
  /\ now' = now + 1
  /\ UNCHANGED <<options, request, peer>>

Next ==
  \/ Intercept
  \/ Subscribe
  \/ HandlerNext
  \/ HandlerComplete
  \/ HandlerError
  \/ Close
  \/ TransportError
  \/ AppAbort
  \/ TimerFire
  \/ Unsubscribe
  \/ Tick

Spec == Init /\ [][Next]_vars

\* requests under exempting configurations
SkipSpec == InitSkip /\ [][Next]_vars

-----------------------------------------------------------------------------
(* AborterGuard (src/src/guards/aborter.guard.ts) *)

\* faulty variant: a request without a controller is refused
canActivateNeedsController(r) == r.hasController /\ ~r.signal.aborted

\* if (request.abortController?.signal.aborted) return false; return true
canActivate(r) == ~(r.hasController /\ r.signal.aborted)

\* instrumented and exempt requests the guard is asked about
ActivateOptions ==
  [timeout : {Num(1)}, reason : {Undefined}, enableLogging : {FALSE},
   logger : {"default"},
   skipRoutes : {<< >>}, skipMethods : {<< >>, <<"OPTIONS">>}]

InitActivate ==
  /\ options \in ActivateOptions
  /\ request \in {NewRequest(method, PathTest, Undefined) : method \in {"GET", "OPTIONS"}}
  /\ now = 0
  /\ peer = NoRequest

\* guard.canActivate(context) is called for the request; request.activations
\* lists the results, a result equal to the previous one not being repeated
CanActivate ==
  /\ LET n == Len(request.activations)
     IN IF n = 0 THEN TRUE ELSE request.activations[n] # canActivate(request)
  /\ request' = [request EXCEPT !.activations = Append(@, canActivate(request))]
  /\ UNCHANGED <<options, now, peer>>

ActivateNext ==
  \/ Next
  \/ CanActivate

\* a request and the guard asked about it at any moment
ActivateSpec == InitActivate /\ [][ActivateNext]_vars

-----------------------------------------------------------------------------
(* A custom logger that throws *)

\* new AborterInterceptor(reflector, { enableLogging: true,
\*   logger: () => { throw new Error('logger failure') } })
ThrowOptions ==
  [timeout : {Undefined, Num(1)}, reason : {Undefined}, enableLogging : {TRUE},
   logger : {"throws"}, skipRoutes : {<< >>}, skipMethods : {<< >>}]

InitThrow ==
  /\ options \in ThrowOptions
  /\ request = NewRequest("GET", PathTest, Undefined)
  /\ now = 0
  /\ peer = NoRequest

\* a request of an interceptor whose custom logger throws
ThrowSpec == InitThrow /\ [][Next]_vars

-----------------------------------------------------------------------------
(* Actions of withAbort *)

GuardOptions ==
  [timeout : {Undefined, Num(-1), Num(MaxTimeout)}, reason : {Undefined},
   enableLogging : {FALSE}, logger : {"default"}, skipRoutes : {<< >>},
   skipMethods : {<< >>}]

InitGuard ==
  /\ options \in GuardOptions
  /\ request = NewRequest("GET", PathTest, Undefined)
  /\ now = 0
  /\ peer = NoRequest

\* the handler of the request calls withAbort(promise, signal, w), with the
\* request's signal or with none; one call per request is followed
WithAbortOf(given, w) ==
  /\ request.handler \in {"pending", "emitted"}
  /\ request.guards = << >>
  /\ given => request.hasController
  /\ request' = [request EXCEPT !.guards =
                    Append(@, withAbort(given, request.signal, w, now))]
  /\ UNCHANGED <<options, now, peer>>

WithAbort == \E given \in BOOLEAN, w \in WithAbortOptions : WithAbortOf(given, w)

\* the promise given to guard i resolves
OperationResolveOf(i, result) ==
  /\ i \in 1..Len(request.guards)
  /\ request.guards[i].operation = "pending"
  /\ request' = [request EXCEPT !.guards[i] =
                    operationResolved(noteGuard(@, "operation"), result)]
  /\ UNCHANGED <<options, now, peer>>

OperationResolve ==
  \E i \in 1..Len(request.guards), result \in OperationResults : OperationResolveOf(i, result)

\* the promise given to guard i rejects
OperationRejectOf(i, error) ==
  /\ i \in 1..Len(request.guards)
  /\ request.guards[i].operation = "pending"
  /\ request' = [request EXCEPT !.guards[i] =
                    operationRejected(noteGuard(@, "operation"), error)]
  /\ UNCHANGED <<options, now, peer>>

OperationReject ==
  \E i \in 1..Len(request.guards), error \in OperationFailures : OperationRejectOf(i, error)

\* the microtask queue runs the then/catch callback of guard i
GuardReactionOf(i) ==
  /\ i \in 1..Len(request.guards)
  /\ request.guards[i].reaction # "none"
  /\ request' = [request EXCEPT !.guards[i] = guardReaction(@)]
  /\ UNCHANGED <<options, now, peer>>

GuardReaction == \E i \in 1..Len(request.guards) : GuardReactionOf(i)

\* faulty variant: the cleanup of the expired guard aborts the controller of
\* the request instead of its own
GuardTimerFireAbortsRequest(i) ==
  /\ i \in 1..Len(request.guards)
  /\ request.guards[i].timer.armed
  /\ now >= request.guards[i].timer.due
  /\ ~microtaskQueued(request)
  /\ request' = abortControllerAbort(options,
                   [request EXCEPT !.guards[i] = guardTimeout(noteGuard(@, "timer"))],
                   Undefined)
  /\ UNCHANGED <<options, now, peer>>

\* the timer of guard i expires
GuardTimerFireOf(i) ==
  /\ i \in 1..Len(request.guards)
  /\ request.guards[i].timer.armed
  /\ now >= request.guards[i].timer.due
  /\ ~microtaskQueued(request)
  /\ request' = [request EXCEPT !.guards[i] = guardTimeout(noteGuard(@, "timer"))]
  /\ UNCHANGED <<options, now, peer>>

GuardTimerFire == \E i \in 1..Len(request.guards) : GuardTimerFireOf(i)

\* the steps of the request while its guards are followed: as Next, with one
\* value for each handler value and error message
GuardedRequestNext ==
  \/ Intercept
  \/ Subscribe
  \/ HandlerNextOf(<<"success">>)
  \/ HandlerComplete
  \/ HandlerErrorOf(<<"boom">>)
  \/ Close
  \/ TransportErrorOf(<<"boom">>)
  \/ AppAbort
  \/ TimerFire
  \/ Unsubscribe
  \/ Tick

GuardNext ==
  \/ GuardedRequestNext
  \/ WithAbort
  \/ OperationResolve
  \/ OperationReject
  \/ GuardReaction
  \/ GuardTimerFire

\* a request and the guards the code running for it arms
GuardSpec == InitGuard /\ [][GuardNext]_vars

-----------------------------------------------------------------------------
(* Parallel operations on one signal *)

ParallelOptions ==
  [timeout : {Num(MaxTimeout)}, reason : {Undefined}, enableLogging : {FALSE},
   logger : {"default"}, skipRoutes : {<< >>}, skipMethods : {<< >>}]

InitParallel ==
  /\ options \in ParallelOptions
  /\ request = NewRequest("GET", PathTest, Undefined)
  /\ now = 0
  /\ peer = NoRequest

\* the options of the calls of a Promise.all: none, or a budget of 1 ms
ParallelWithAbortOptions ==
  {w \in WithAbortOptions : w.timeoutMessage = Undefined /\ w.timeout \in {Undefined, Num(1)}}

\* Promise.all([withAbort(p1, signal, w1), withAbort(p2, signal, w2)]): the
\* handler arms two guards on the request's signal in one turn; a call that
\* throws ends the turn
ParallelOperationsOf(w1, w2) ==
  /\ request.handler \in {"pending", "emitted"}
  /\ request.guards = << >>
  /\ request.hasController
  /\ LET g1 == withAbort(TRUE, request.signal, w1, now)
         g2 == withAbort(TRUE, request.signal, w2, now)
     IN request' = [request EXCEPT !.guards =
                       IF g1.ret = "threw" THEN <<g1>> ELSE <<g1, g2>>]
  /\ UNCHANGED <<options, now, peer>>

ParallelOperations ==
  \E w1 \in ParallelWithAbortOptions, w2 \in ParallelWithAbortOptions :
     ParallelOperationsOf(w1, w2)

\* the promise given to guard i of a Promise.all rejects with an Error
ParallelOperationReject ==
  \E i \in 1..Len(request.guards) :
     OperationRejectOf(i, [cls |-> "Error", message |-> <<"boom">>])

ParallelNext ==
  \/ GuardedRequestNext
  \/ ParallelOperations
  \/ OperationResolve
  \/ ParallelOperationReject
  \/ GuardReaction
  \/ GuardTimerFire

\* a request whose handler runs two guarded operations side by side
ParallelSpec == InitParallel /\ [][ParallelNext]_vars

-----------------------------------------------------------------------------
(* Two requests in flight through one interceptor *)

PairOptions ==
  [timeout : {Num(1)}, reason : {Undefined}, enableLogging : {TRUE},
   logger : {"default"}, skipRoutes : {<< >>}, skipMethods : {<< >>}]

\* request A under the global timeout, request B on a route with its own
InitPair ==
  /\ options \in PairOptions
  /\ request = NewRequest("GET", PathTest, Undefined)
  /\ peer = [NewRequest("GET", PathTest, Num(MaxTimeout)) EXCEPT !.id = "B"]
  /\ now = 0

Ids == {"A", "B"}

requestOf(id) == IF id = "A" THEN request ELSE peer

\* an 'abort' event reaches every listener registered on the controller that
\* fired: those of another request too, if it holds the same controller
sharedAbort(o, r, other) ==
  IF /\ r.hasController /\ other.hasController
     /\ r.controller = other.controller
     /\ r.signal.aborted /\ ~other.signal.aborted
    THEN abortControllerAbort(o, other, r.signal.reason)
    ELSE other

\* the turn leaves request id as r
becomes(id, r) ==
  IF id = "A"
    THEN request' = r /\ peer' = sharedAbort(options, r, peer)
    ELSE peer' = r /\ request' = sharedAbort(options, r, request)

PairIntercept(id) ==
  /\ requestOf(id).phase = "idle"
  /\ becomes(id, intercept(options, requestOf(id)))
  /\ UNCHANGED <<options, now>>

\* the handler of either request answers later
PairSubscribe(id) ==
  /\ requestOf(id).phase = "bound"
  /\ becomes(id, subscribe(options, requestOf(id), "async", << >>, now))
  /\ UNCHANGED <<options, now>>

PairHandlerComplete(id) ==
  /\ requestOf(id).handler \in {"pending", "emitted"}
  /\ becomes(id, escapes(handlerComplete(options,
                 [note(requestOf(id), "handler") EXCEPT !.handler = "completed"]),
               "complete"))
  /\ UNCHANGED <<options, now>>

PairHandlerError(id) ==
  /\ requestOf(id).handler \in {"pending", "emitted"}
  /\ becomes(id, handlerError(options,
                 [note(requestOf(id), "handler") EXCEPT !.handler = "errored"],
                 Error(<<"boom">>)))
  /\ UNCHANGED <<options, now>>

PairClose(id) ==
  /\ requestOf(id).phase # "idle"
  /\ becomes(id, IF "close" \in requestOf(id).listeners
                    THEN escapes(closeHandler(options, note(requestOf(id), "close")),
                                 "close")
                    ELSE note(requestOf(id), "close"))
  /\ UNCHANGED <<options, now>>

PairTransportError(id) ==
  /\ requestOf(id).phase # "idle"
  /\ becomes(id, IF "error" \in requestOf(id).listeners
                    THEN escapes(errorHandler(options, note(requestOf(id), "error"),
                                              <<"boom">>),
                                 "error")
                    ELSE note(requestOf(id), "error"))
  /\ UNCHANGED <<options, now>>

\* application code of request id calls its request.abortController.abort()
PairAppAbort(id) ==
  /\ requestOf(id).hasController
  /\ becomes(id, abortControllerAbort(options, note(requestOf(id), "abort"),
                                       Str(<<"app">>)))
  /\ UNCHANGED <<options, now>>

PairTimerFire(id) ==
  /\ requestOf(id).timer.armed
  /\ now >= requestOf(id).timer.due
  /\ becomes(id, timeoutExpired(options, note(requestOf(id), "timeout")))
  /\ UNCHANGED <<options, now>>

PairUnsubscribe(id) ==
  /\ requestOf(id).phase = "racing"
  /\ becomes(id, escapes(unsubscribe(options, requestOf(id)), "unsubscribe"))
  /\ UNCHANGED <<options, now>>

PairTick ==
  /\ now < MaxTime
  /\ ~timerDue(request, now)
  /\ ~timerDue(peer, now)
  /\ now' = now + 1
  /\ UNCHANGED <<options, request, peer>>

PairNext ==
  \/ \E id \in Ids : PairIntercept(id)
  \/ \E id \in Ids : PairSubscribe(id)
  \/ \E id \in Ids : PairHandlerComplete(id)
  \/ \E id \in Ids : PairHandlerError(id)
  \/ \E id \in Ids : PairClose(id)
  \/ \E id \in Ids : PairTransportError(id)
  \/ \E id \in Ids : PairAppAbort(id)
  \/ \E id \in Ids : PairTimerFire(id)
  \/ \E id \in Ids : PairUnsubscribe(id)
  \/ PairTick

\* two concurrent requests of one interceptor instance
PairSpec == InitPair /\ [][PairNext]_vars

-----------------------------------------------------------------------------
(* Timers that do expire *)

LiveOptions ==
  [timeout : {Num(k) : k \in 1..MaxTimeout}, reason : {Undefined},
   enableLogging : {FALSE}, logger : {"default"}, skipRoutes : {<< >>},
   skipMethods : {<< >>}]

InitLive ==
  /\ options \in LiveOptions
  /\ request = NewRequest("GET", PathTest, Undefined)
  /\ now = 0
  /\ peer = NoRequest

\* time passes and an expired timer runs its callback (the event loop); the
\* handler, the transport and the caller owe nothing
LiveSpec == InitLive /\ [][Next]_vars /\ WF_vars(Tick) /\ WF_vars(TimerFire)

-----------------------------------------------------------------------------
(* Claims *)

Notifications == {request.out[i] : i \in 1..Len(request.out)}

Cleaned(x) == x.aborted /\ x.listeners = {}

\* C1: when the race of an instrumented request has been torn down, by
\* whichever exit (handler success, handler error, close, transport error,
\* application abort, timeout, the caller unsubscribing), the handle is
\* aborted and neither the 'close' nor the 'error' listener is registered.
C1_CleanupOnEveryExit ==
  request.phase = "done" =>
    /\ request.signal.aborted
    /\ request.listeners = {}

\* the race ended by the handler completing, with cleanup run after it
C1_Witness ==
  /\ request.phase = "done"
  /\ \E x \in Notifications : x.kind = "complete" /\ ~x.aborted
  /\ request.signal.aborted
  /\ request.listeners = {}

\* C2, as claimed: every notification the caller receives (value, completion,
\* error) finds the handle already aborted and the listeners unregistered.
C2_Original == \A x \in Notifications : Cleaned(x)

\* the part of C2 the code keeps: every error notification (handler error,
\* cancellation, timeout) finds the handle aborted and the listeners
\* unregistered; a completion is delivered first and cleanup has run by the
\* end of that turn.
C2_CleanupBeforeError ==
  /\ \A x \in Notifications : x.kind = "error" => Cleaned(x)
  /\ (\E x \in Notifications : x.kind = "complete") =>
       /\ request.phase = "done"
       /\ request.signal.aborted
       /\ request.listeners = {}

\* a cancellation error was delivered after cleanup had run
C2_Witness ==
  \E x \in Notifications :
    /\ x.kind = "error"
    /\ x.cls = "RequestTimeoutException"
    /\ x.text = <<"Client disconnected">>
    /\ Cleaned(x)

\* the terminal notifications (error or completion) the caller has received
Terminals == {i \in 1..Len(request.out) : request.out[i].kind \in {"error", "complete"}}

\* C3, as claimed: the caller receives at most one terminal outcome, and it is
\* the outcome of the event that occurred first on the request: the handler's
\* own completion or error if the handler was first, a request-timeout error
\* if a close, a transport error, an application abort or the timer was first.
C3_Original ==
  /\ Cardinality(Terminals) <= 1
  /\ \A i \in Terminals :
       /\ request.first = "handler" => request.out[i].cls \in {"none", "Error"}
       /\ request.first \in {"close", "error", "abort", "timeout"} =>
            request.out[i].cls = "RequestTimeoutException"

\* C4, as claimed: once the handle is aborted every later fire attempt (close,
\* transport error, timer, handler-error cleanup, default cleanup) is a no-op:
\* the handle fires once, the first reason stays on the handle and on the
\* request, the abort observer runs at most once and nothing more is logged.
C4_Original ==
  [][ /\ request'.fires <= 1
      /\ request'.obsCalls <= 1
      /\ request.signal.aborted =>
           /\ request'.signal = request.signal
           /\ request'.abortReason = request.abortReason
           /\ request'.obsCalls = request.obsCalls
           /\ request'.logs = request.logs ]_vars

\* C5, as claimed: an aborted handle stays aborted, and request.abortReason,
\* once set, never changes.
C5_Original ==
  [][ /\ request.signal.aborted => request'.signal.aborted
      /\ request.abortReason # Undefined =>
           request'.abortReason = request.abortReason ]_vars

\* C6, as claimed: whenever the handle is aborted, a reason string is recorded
\* in request.abortReason.
C6_Original ==
  request.signal.aborted =>
    /\ request.abortReason.t = "string"
    /\ request.abortReason.s # << >>

\* the timeout the claim's precedence rule gives for (route override, global)
ExpectedTimeout ==
  CASE request.routeTimeout = Undefined -> options.timeout
    [] request.routeTimeout = Null -> Undefined
    [] OTHER -> request.routeTimeout

\* C7: the effective timeout of a request is the route override whenever one
\* is set (null meaning no timeout, 0 staying 0) and the global timeout only
\* when none is set; the timeout branch is armed with exactly that value.
C7_RoutePrecedence ==
  request.phase # "idle" =>
    /\ request.effectiveTimeout = ExpectedTimeout
    /\ request.timer.armed =>
         request.timer.due = request.subscribedAt + ExpectedTimeout.n
    /\ (request.phase = "racing" /\ request.handler = "pending") =>
         (request.timer.armed <=> ExpectedTimeout.n > 0)

\* a route override of 0 with a positive global timeout: no timer is armed
C7_Witness ==
  /\ request.routeTimeout = Num(0)
  /\ options.timeout.n > 0
  /\ request.effectiveTimeout = Num(0)
  /\ request.phase = "racing"
  /\ request.handler = "pending"
  /\ ~request.timer.armed

IsTimeoutText(text) == Len(text) > 0 /\ text[1] = "Request timed out after "

\* C8: with an effective timeout that is null, zero or negative the timeout
\* branch never fires: no timer is armed, no timeout reason is recorded on
\* the handle or the request, no timeout error reaches the caller and no
\* [TIMEOUT] message is logged.
C8_NoTimeoutNeverFires ==
  (request.phase # "idle" /\ ~(request.timeoutArg.n > 0)) =>
    /\ ~request.timer.armed
    /\ ~IsTimeoutText(request.abortReason.s)
    /\ ~IsTimeoutText(request.signal.reason.s)
    /\ \A x \in Notifications : ~IsTimeoutText(x.text)
    /\ \A i \in 1..Len(request.logs) : request.logs[i][2] # "TIMEOUT"

\* a negative effective timeout, the handler pending longer than any timeout
C8_Witness ==
  /\ request.timeoutArg = Num(-1)
  /\ request.phase = "racing"
  /\ request.handler = "pending"
  /\ now - request.subscribedAt > MaxTimeout

\* a request-timeout error with this message, delivered after cleanup
TimeoutError(text) ==
  [ kind |-> "error", cls |-> "RequestTimeoutException", text |-> text,
    aborted |-> TRUE, listeners |-> {}, abortReason |-> Str(text) ]

\* the caller has its terminal outcome: nothing is delivered after it
OutcomeStays == request.phase = "done" => request'.out = request.out

\* C9: when the timer of a positive effective timeout T expires, T ms after
\* the subscription, with the handler still pending and the handle not
\* fired, the handle is fired with "Request timed out after Tms", the request
\* records that reason, the caller receives a RequestTimeoutException with it,
\* and no handler result is delivered afterwards.
C9_TimeoutFires ==
  [][ /\ (TimerFire /\ ~request.signal.aborted /\ request.handler = "pending") =>
           LET T == request.timeoutArg.n
               text == <<"Request timed out after ", ToString(T), "ms">>
           IN /\ T > 0
              /\ now = request.subscribedAt + T
              /\ request'.signal.aborted
              /\ request'.signal.reason = Str(text)
              /\ request'.abortReason = Str(text)
              /\ request'.out = <<TimeoutError(text)>>
              /\ request'.phase = "done"
      /\ OutcomeStays ]_vars

\* the timeout won and the handler finished afterwards, undelivered
C9_Witness ==
  /\ request.first = "timeout"
  /\ request.handler = "completed"
  /\ Len(request.out) = 1
  /\ IsTimeoutText(request.out[1].text)
  /\ request.abortReason = Str(request.out[1].text)

\* a transport event arrives while the handler is pending and the handle live
HandlerPending ==
  /\ request.phase = "racing"
  /\ request.handler = "pending"
  /\ ~request.signal.aborted

\* the handle is fired with this reason and the caller fails with it at once
CancelledWith(text) ==
  /\ request'.signal.aborted
  /\ request'.signal.reason = Str(text)
  /\ request'.abortReason = Str(text)
  /\ request'.out = <<TimeoutError(text)>>
  /\ request'.phase = "done"

\* C10: a 'close' event (an 'error' event with a message) arriving while the
\* handler is pending and the handle is not aborted fires the handle with
\* "Client disconnected" ("Request error: <message>"), the caller receives a
\* RequestTimeoutException with that reason in the same turn, and the
\* handler's later value is never delivered.
C10_DisconnectCancels ==
  [][ /\ (Close /\ HandlerPending) => CancelledWith(<<"Client disconnected">>)
      /\ \A message \in Messages :
           (TransportErrorOf(message) /\ HandlerPending) =>
             CancelledWith(<<"Request error: ">> \o message)
      /\ OutcomeStays ]_vars

\* a transport error cancelled the request; the handler emitted afterwards
C10_Witness ==
  /\ request.first = "error"
  /\ request.handler \in {"emitted", "completed"}
  /\ Len(request.out) = 1
  /\ request.out[1].text = <<"Request error: ", "boom">>
  /\ request.out[1].cls = "RequestTimeoutException"

\* the race is subscribed and still listens to the handler
HandlerHeard == request.phase = "racing" /\ request.handlerSub

\* the notification this step delivered to the caller
Delivered == request'.out[Len(request'.out)]

DeliversOne == Len(request'.out) = Len(request.out) + 1

\* C11: what the handler produces while the race listens to it reaches the
\* caller unchanged: the same value, a completion as a completion, and its
\* error as that error (class and message), never as a request-timeout error,
\* although cleanup fires the handle while the error propagates.
C11_HandlerPassesThrough ==
  [][ /\ \A value \in HandlerValues :
           (HandlerNextOf(value) /\ HandlerHeard) =>
              /\ DeliversOne
              /\ Delivered.kind = "next"
              /\ Delivered.text = value
      /\ (HandlerComplete /\ HandlerHeard) =>
            /\ DeliversOne
            /\ Delivered.kind = "complete"
      /\ \A message \in Messages :
           (HandlerErrorOf(message) /\ HandlerHeard) =>
              /\ DeliversOne
              /\ Delivered.kind = "error"
              /\ Delivered.cls = "Error"
              /\ Delivered.text = message ]_vars

\* the handler failed with the abort listener registered: cleanup fired the
\* handle, the listener ran, and the caller still got the handler's error
C11_Witness ==
  /\ request.first = "handler"
  /\ request.obsCalls = 1
  /\ Len(request.out) = 1
  /\ request.out[1].cls = "Error"
  /\ request.out[1].text = <<"boom">>

\* C12: when the handler fails while the handle is not aborted, the caller
\* receives the error with the handle already aborted and with
\* request.abortReason and the handle's reason equal to
\* "Handler error: <message>".
C12_HandlerErrorReason ==
  [][ \A message \in Messages :
        (HandlerErrorOf(message) /\ HandlerHeard /\ ~request.signal.aborted) =>
           /\ DeliversOne
           /\ Delivered.aborted
           /\ Delivered.abortReason = Str(<<"Handler error: ">> \o message)
           /\ request'.abortReason = Str(<<"Handler error: ">> \o message)
           /\ request'.signal.reason = Str(<<"Handler error: ">> \o message) ]_vars

\* a handler error with an empty message still recorded a handler-error reason
C12_Witness ==
  /\ request.handler = "errored"
  /\ Len(request.out) = 1
  /\ request.out[1].cls = "Error"
  /\ request.out[1].text = << >>
  /\ request.abortReason = Str(<<"Handler error: ">>)
  /\ request.signal.reason = Str(<<"Handler error: ">>)

\* the route filter exempts the request
Exempt == shouldSkipRoute(options, request)

\* an exempt request has no handle, no transport listener, no abort listener
\* and no timer, and was never aborted, logged or failed with a
\* request-timeout error
ExemptUntouched ==
  Exempt =>
    /\ ~request.hasController
    /\ ~request.signal.aborted
    /\ request.listeners = {}
    /\ ~request.abortListener
    /\ ~request.timer.armed
    /\ request.abortReason = Undefined
    /\ request.effectiveTimeout = Undefined
    /\ request.logs = << >>
    /\ \A x \in Notifications : x.cls # "RequestTimeoutException"

\* C13: every step leaves an exempt request without handle, transport
\* listeners and timer, un-aborted and without a request-timeout error,
\* whatever timeout is configured; what its handler produces reaches the
\* caller unchanged, and 'close', 'error' and the passing of time change
\* neither what the caller has received nor whether the request is running.
C13_Exempt ==
  [][ /\ ExemptUntouched'
      /\ Exempt =>
          /\ \A value \in HandlerValues :
               (HandlerNextOf(value) /\ request.handlerSub) =>
                  /\ DeliversOne
                  /\ Delivered.kind = "next"
                  /\ Delivered.text = value
          /\ (HandlerComplete /\ request.handlerSub) =>
                /\ DeliversOne
                /\ Delivered.kind = "complete"
          /\ \A message \in Messages :
               (HandlerErrorOf(message) /\ request.handlerSub) =>
                  /\ DeliversOne
                  /\ Delivered.kind = "error"
                  /\ Delivered.cls = "Error"
                  /\ Delivered.text = message
          /\ (Close \/ TransportError \/ Tick) =>
                /\ request'.out = request.out
                /\ request'.phase = request.phase
                /\ request'.handlerSub = request.handlerSub ]_vars

\* an exempt request under a 1 ms timeout whose handler is still pending at
\* time 3, after a 'close' event: the caller has received nothing
C13_Witness ==
  /\ Exempt
  /\ options.timeout = Num(1)
  /\ request.phase = "direct"
  /\ request.handler = "pending"
  /\ request.first = "close"
  /\ now = MaxTime
  /\ request.out = << >>

\* C14 as stated: a request is exempt exactly when some skipRoutes pattern
\* matches its path or some skipMethods entry equals its method with letter
\* case ignored on both sides.
C14_Original ==
  request.phase # "idle" =>
    ~request.hasController
      <=> ( \/ \E i \in 1..Len(options.skipRoutes) :
                 match(request.path, options.skipRoutes[i])
            \/ \E i \in 1..Len(options.skipMethods) :
                 ToUpperCase(options.skipMethods[i]) = ToUpperCase(request.method) )

-----------------------------------------------------------------------------
(* Claims about withAbort *)

\* the guard the withAbort call of this step created
Called == request'.guards[Len(request'.guards)]

\* the operation timeout w asks for exceeds the request timeout recorded on
\* the signal
OverBudget(w) ==
  /\ Truthy(w.timeout)
  /\ Truthy(request.signal.requestTimeout)
  /\ w.timeout.n > request.signal.requestTimeout.n

\* the call left nothing behind: no then-callback on the promise, no timer,
\* no listener on the signal, no callback ever run
Unarmed(g) == ~g.attached /\ ~g.timer.armed /\ ~g.listener /\ g.calls = 0

\* C15: a withAbort call with the request's signal and a timeout greater than
\* the request timeout recorded on that signal throws an Error from the call
\* itself, and neither then nor later is the promise attached to, a timer
\* armed or a listener registered.
C15_BudgetThrows ==
  [][ /\ \A w \in WithAbortOptions :
           (WithAbortOf(TRUE, w) /\ OverBudget(w)) =>
              /\ Called.ret = "threw"
              /\ Called.outcome.cls = "Error"
              /\ Called.state = "pending"
      /\ \A i \in 1..Len(request'.guards) :
           request'.guards[i].ret = "threw" => Unarmed(request'.guards[i]) ]_vars

\* the call threw for 3 ms against a request timeout of 2 ms; the promise
\* resolved later and no callback ran
C15_Witness ==
  /\ Len(request.guards) = 1
  /\ request.guards[1].ret = "threw"
  /\ request.guards[1].timeout.n > request.signal.requestTimeout.n
  /\ request.signal.requestTimeout.n > 0
  /\ request.guards[1].operation = "resolved"
  /\ request.guards[1].calls = 0

\* C16 (as stated): a withAbort call with a signal that is already aborted
\* returns a promise already rejected with an AbortError whose message is the
\* signal's reason, and nothing is attached, armed or registered.
C16_Original ==
  [][ \A w \in WithAbortOptions :
        (WithAbortOf(TRUE, w) /\ request.signal.aborted) =>
           /\ Called.ret = "rejected"
           /\ Called.state = "rejected"
           /\ Called.outcome = [cls |-> "AbortError",
                                message |-> String(request.signal.reason)]
           /\ Unarmed(Called) ]_vars

\* C16 (amended): a withAbort call within budget with a signal that is already
\* aborted returns a promise already rejected with an AbortError whose message
\* is the signal's reason, and neither then nor later is the promise attached
\* to, a timer armed or a listener registered.
C16_AbortedRejects ==
  [][ /\ \A w \in WithAbortOptions :
           (WithAbortOf(TRUE, w) /\ request.signal.aborted /\ ~OverBudget(w)) =>
              /\ Called.ret = "rejected"
              /\ Called.state = "rejected"
              /\ Called.outcome = [cls |-> "AbortError",
                                   message |-> String(request.signal.reason)]
      /\ \A i \in 1..Len(request'.guards) :
           request'.guards[i].ret = "rejected" => Unarmed(request'.guards[i])
      /\ \A i \in 1..Len(request.guards) :
           request.guards[i].ret = "rejected" =>
              /\ request'.guards[i].state = "rejected"
              /\ request'.guards[i].outcome = request.guards[i].outcome ]_vars

\* the handle was fired by 'close' before the call, which asked for a timeout
\* as well; the promise rejected later and the guard did not see it
C16_Witness ==
  /\ Len(request.guards) = 1
  /\ request.guards[1].ret = "rejected"
  /\ request.guards[1].outcome =
       [cls |-> "AbortError", message |-> <<"Client disconnected">>]
  /\ Truthy(request.guards[1].timeout)
  /\ request.guards[1].operation = "rejected"
  /\ request.guards[1].calls = 0

\* the message of the AbortError the timer of guard g rejects with
TimeoutMessage(g) ==
  IF g.timeoutMessage # Undefined
    THEN g.timeoutMessage.s
    ELSE <<"Operation timed out after ", ToString(g.timeout.n), "ms">>

\* the request's handle fires in this step
Fires == ~request.signal.aborted /\ request'.signal.aborted

\* the outcome a guard takes from its settled promise: the value, or the
\* rejection (its message, and no AbortError)
TakesOperation(g, h) ==
  IF g.operation = "resolved"
    THEN h.state = "fulfilled" /\ h.outcome = g.settled
    ELSE /\ h.state = "rejected"
         /\ h.outcome.message = g.settled.message
         /\ h.outcome.cls # "AbortError"

\* C17 (as stated): a wrapping guard that has settled holds the outcome of
\* the first of the three events that happened to it: the promise's value or
\* rejection when the promise settled first, an AbortError with the signal's
\* reason when the handle fired first, an AbortError with the custom or the
\* default timeout message when its timer expired first.
C17_Original ==
  \A i \in 1..Len(request.guards) :
    LET g == request.guards[i]
    IN (g.ret = "wrapped" /\ g.state # "pending") =>
         CASE g.first = "operation" -> TakesOperation(g, g)
           [] g.first = "abort" ->
                /\ g.state = "rejected"
                /\ g.outcome = [cls |-> "AbortError",
                                message |-> String(request.signal.reason)]
           [] g.first = "timer" ->
                /\ g.state = "rejected"
                /\ g.outcome = [cls |-> "AbortError", message |-> TimeoutMessage(g)]
           [] OTHER -> FALSE

\* C17 (amended): a wrapping guard that is still pending settles with the
\* first of its callbacks to run: the then/catch callback of the promise,
\* queued when the promise settles and run at the end of that turn (the
\* promise's value, or its rejection), the 'abort' listener, run when the
\* handle fires (an AbortError with the signal's reason), or the timer
\* callback (an AbortError with the custom or the default timeout message).
\* The settling of the promise alone leaves the guard pending, the guard
\* does not settle otherwise, and once settled no later step changes its
\* state or outcome.
C17_FirstCallbackWins ==
  [][ \A i \in 1..Len(request.guards) :
        LET g == request.guards[i]
            h == request'.guards[i]
        IN /\ g.state # "pending" => (h.state = g.state /\ h.outcome = g.outcome)
           /\ (g.ret = "wrapped" /\ g.state = "pending") =>
                /\ \A result \in OperationResults :
                     OperationResolveOf(i, result) =>
                        (h.state = "pending" /\ h.reaction = "then")
                /\ \A error \in OperationFailures :
                     OperationRejectOf(i, error) =>
                        (h.state = "pending" /\ h.reaction = "catch")
                /\ GuardReactionOf(i) => TakesOperation(g, h)
                /\ GuardTimerFireOf(i) =>
                     /\ h.state = "rejected"
                     /\ h.outcome = [cls |-> "AbortError", message |-> TimeoutMessage(g)]
                /\ (g.given /\ Fires) =>
                     /\ h.state = "rejected"
                     /\ h.outcome = [cls |-> "AbortError",
                                     message |-> String(request'.signal.reason)]
                /\ h.state # "pending" =>
                     \/ GuardReactionOf(i)
                     \/ GuardTimerFireOf(i)
                     \/ g.given /\ Fires ]_vars

\* the promise resolved and the application fired the handle in the same
\* turn: the 'abort' listener rejected the guard, the then-callback ran
\* afterwards and its resolve was ignored
C17_Witness ==
  /\ Len(request.guards) = 1
  /\ request.guards[1].ret = "wrapped"
  /\ request.guards[1].first = "operation"
  /\ request.guards[1].operation = "resolved"
  /\ request.guards[1].reaction = "none"
  /\ request.guards[1].calls = 2
  /\ request.guards[1].state = "rejected"
  /\ request.guards[1].outcome = [cls |-> "AbortError", message |-> <<"app">>]

\* the handle fired first ('close'), then the guard's timer would have been
\* due and the promise resolved: the guard stays rejected with the reason
C17_WitnessFireFirst ==
  /\ Len(request.guards) = 1
  /\ request.guards[1].ret = "wrapped"
  /\ request.guards[1].first = "abort"
  /\ Truthy(request.guards[1].timeout)
  /\ now >= request.guards[1].timer.due
  /\ request.guards[1].operation = "resolved"
  /\ request.guards[1].calls = 2
  /\ request.guards[1].state = "rejected"
  /\ request.guards[1].outcome =
       [cls |-> "AbortError", message |-> <<"Client disconnected">>]

\* C18: a settled guard holds no armed timer and no listener on the signal,
\* and a step other than the settling of its own promise and the callback
\* queued by it (the handle firing, a timer, the clock) runs none of its
\* callbacks.
C18_SettledGuardReleased ==
  [][ /\ \A i \in 1..Len(request'.guards) :
           request'.guards[i].state # "pending" =>
              /\ ~request'.guards[i].timer.armed
              /\ ~request'.guards[i].listener
      /\ \A i \in 1..Len(request.guards) :
           ( /\ request.guards[i].state # "pending"
             /\ request'.guards[i].operation = request.guards[i].operation
             /\ request'.guards[i].reaction = request.guards[i].reaction ) =>
                request'.guards[i].calls = request.guards[i].calls ]_vars

\* a guard with signal and timer was settled by its promise; the handle fired
\* afterwards and the clock passed the timer's due time: one callback ran
C18_Witness ==
  /\ Len(request.guards) = 1
  /\ request.guards[1].ret = "wrapped"
  /\ request.guards[1].given
  /\ Truthy(request.guards[1].timeout)
  /\ request.guards[1].first = "operation"
  /\ request.guards[1].state = "fulfilled"
  /\ request.guards[1].calls = 1
  /\ request.signal.aborted
  /\ now > request.guards[1].timer.due

\* C19: a withAbort call with no signal and no timeout returns the promise it
\* was given: nothing is attached, armed or registered, the returned promise
\* settles exactly as the promise does (same value, same rejection reason)
\* and nothing else settles it.
C19_Passthrough ==
  [][ /\ \A w \in WithAbortOptions :
           (WithAbortOf(FALSE, w) /\ ~Truthy(w.timeout)) => Called.ret = "same"
      /\ \A i \in 1..Len(request'.guards) :
           request'.guards[i].ret = "same" => Unarmed(request'.guards[i])
      /\ \A i \in 1..Len(request.guards) :
           LET g == request.guards[i]
               h == request'.guards[i]
           IN g.ret = "same" =>
                /\ \A result \in OperationResults :
                     OperationResolveOf(i, result) =>
                        /\ h.state = "fulfilled"
                        /\ h.outcome = [cls |-> "value", message |-> result]
                /\ \A error \in OperationFailures :
                     OperationRejectOf(i, error) =>
                        /\ h.state = "rejected"
                        /\ h.outcome = error
                /\ h.state # g.state => (OperationResolve \/ OperationReject) ]_vars

\* the promise was returned as it is while the request's handle was live; the
\* handle fired, and the promise then rejected with a plain string
C19_Witness ==
  /\ Len(request.guards) = 1
  /\ request.guards[1].ret = "same"
  /\ request.signal.aborted
  /\ request.guards[1].state = "rejected"
  /\ request.guards[1].outcome = [cls |-> "string", message |-> <<"plain">>]

-----------------------------------------------------------------------------
(* Claims about the timers of AborterInterceptor *)

\* C20: a request whose race has terminated has no armed timeout timer,
\* whether the timeout ended it or the timeout branch lost the race.
C20_NoTimerLeft == request.phase = "done" => ~request.timer.armed

\* the handler won against a timer that was armed, and the time at which the
\* timer would have expired has passed
C20_Witness ==
  /\ request.phase = "done"
  /\ request.first = "handler"
  /\ Truthy(request.timeoutArg)
  /\ request.timeoutArg.n > 0
  /\ request.handler = "completed"
  /\ now > request.subscribedAt + request.timeoutArg.n
  /\ \A x \in Notifications : x.cls # "RequestTimeoutException"
  /\ ~request.timer.armed

-----------------------------------------------------------------------------
(* Claims about the cancellation branch *)

\* C22 as stated: a handle fired before the cancellation branch subscribes
\* still fails the race, so a race that waits on a pending handler with
\* nothing delivered never has an aborted handle.
C22_Original ==
  ( /\ request.phase = "racing"
    /\ request.handler = "pending"
    /\ request.out = << >> ) => ~request.signal.aborted

\* C23 as stated: the request-timeout error the cancellation branch delivers
\* carries the reason the handle was fired with, whoever fired it with a
\* reason of its own (disconnect, transport error, timeout, application).
C23_Original ==
  \A x \in Notifications :
    ( /\ x.cls = "RequestTimeoutException"
      /\ request.obsCalls > 0
      /\ request.signal.reason.t = "string" ) => x.text = request.signal.reason.s

-----------------------------------------------------------------------------
(* Claims about logging and the recorded timeout *)

\* C25: with logging disabled no logger is ever invoked: no message is
\* logged whatever abort, cleanup and timeout events the request sees.
C25_DisabledLoggingSilent == ~options.enableLogging => request.logs = << >>

\* logging is disabled and the request was ended by its timer: the timeout
\* fired the handle and cleanup ran, and nothing was logged
C25_Witness ==
  /\ ~options.enableLogging
  /\ request.phase = "done"
  /\ request.first = "timeout"
  /\ request.fires = 1
  /\ request.listeners = {}
  /\ request.logs = << >>

\* C27: once intercept() has attached the handle, a positive resolved timeout
\* is both request.effectiveTimeout and the request timeout recorded on the
\* signal; a resolved 0 is request.effectiveTimeout while the signal records
\* none; with null or no timeout at all both are unset.
C27_TimeoutRecorded ==
  request.hasController =>
    /\ (ExpectedTimeout.t = "number" /\ ExpectedTimeout.n > 0) =>
          /\ request.effectiveTimeout = ExpectedTimeout
          /\ request.signal.requestTimeout = ExpectedTimeout
    /\ ExpectedTimeout = Num(0) =>
          /\ request.effectiveTimeout = Num(0)
          /\ request.signal.requestTimeout = Undefined
    /\ ExpectedTimeout = Undefined =>
          /\ request.effectiveTimeout = Undefined
          /\ request.signal.requestTimeout = Undefined

\* a route override of 0 under a positive global timeout
C27_Witness ==
  /\ request.hasController
  /\ request.routeTimeout = Num(0)
  /\ options.timeout.n > 0
  /\ request.effectiveTimeout = Num(0)
  /\ request.signal.requestTimeout = Undefined

-----------------------------------------------------------------------------
(* Claims about AborterFilter and AborterGuard *)

\* C28: when the caller receives a request-timeout error (from the
\* cancellation or the timeout branch), the response is status 408 with body
\* { statusCode: 408, message: <the error's message>, error: 'Request Timeout' }.
C28_Filter408 ==
  \A x \in Notifications :
    x.cls = "RequestTimeoutException" =>
      request.response =
        [ status |-> 408,
          body |-> [statusCode |-> 408, message |-> x.text,
                    error |-> <<"Request Timeout">>] ]

\* the cancellation branch ended the request after a transport error with the
\* message 'boom'
C28_Witness ==
  /\ request.first = "error"
  /\ request.obsCalls = 1
  /\ request.response.status = 408
  /\ request.response.body.message = <<"Request error: ", "boom">>

\* C29 as stated: a request ended by the 'close' event is answered with
\* status 499, a request ended by the timeout branch with status 408.
C29_Original ==
  \A x \in Notifications :
    x.cls = "RequestTimeoutException" =>
      request.response.status =
        IF x.text = <<"Client disconnected">> THEN 499 ELSE 408

\* C30: whenever it is called, canActivate returns false exactly when the
\* request carries a controller whose signal is aborted at that moment, and
\* true otherwise (live handle, or no handle at all).
C30_GuardReadsHandle ==
  [][ CanActivate =>
        request'.activations[Len(request'.activations)]
          = ~(request.hasController /\ request.signal.aborted) ]_vars

\* the guard allowed the request while its handle was live and refused it
\* after the handle had fired
C30_Witness ==
  /\ request.activations = <<TRUE, FALSE>>
  /\ request.signal.aborted

\* the guard allows an exempt request whatever has happened on its transport
C30_WitnessExempt ==
  /\ Exempt
  /\ request.first = "close"
  /\ request.activations = <<TRUE>>

\* C24 (as stated): with a custom logger that throws, no exception escapes
\* the 'close' or 'error' callback of the transport, the caller never
\* receives the logger's error in place of its outcome, and a request that is
\* over has its handle fired and its transport listeners unregistered
C24_Original ==
  options.logger = "throws" =>
    /\ request.uncaught \cap {"close", "error"} = {}
    /\ \A x \in Notifications : ~(x.cls = LoggerFailure.cls /\ x.text = LoggerFailure.message)
    /\ request.phase = "done" => (request.signal.aborted /\ request.listeners = {})

\* a guard armed with the request's signal: the call returned a promise
OnHandle(g) == g.given /\ g.ret \in {"wrapped", "rejected"}

\* C26: in the step in which the request's handle fires, whatever fires it,
\* every guard armed with the handle and still pending is rejected with an
\* AbortError; after any step, no guard armed with the handle is pending
\* while the handle is fired.
C26_GuardsSettleOnFire ==
  [][ /\ Fires =>
           \A i \in 1..Len(request.guards) :
              (OnHandle(request.guards[i]) /\ request.guards[i].state = "pending") =>
                 /\ request'.guards[i].state = "rejected"
                 /\ request'.guards[i].outcome.cls = "AbortError"
      /\ request'.signal.aborted =>
           \A i \in 1..Len(request'.guards) :
              OnHandle(request'.guards[i]) => request'.guards[i].state # "pending"
    ]_vars

\* two guards pending on the handle when the timer of the request fired it,
\* both rejected by the 'abort' event
C26_Witness ==
  /\ Len(request.guards) = 2
  /\ request.signal.aborted
  /\ request.first = "timeout"
  /\ \A i \in 1..2 :
        /\ request.guards[i].ret = "wrapped"
        /\ request.guards[i].first = "abort"
        /\ request.guards[i].outcome.cls = "AbortError"

\* what the claim lists of a request: its handle, the recorded reason, the
\* transport listeners, the timer and what its caller has received
Owned(r) ==
  <<r.hasController, r.signal, r.abortReason, r.listeners, r.abortListener,
    r.timer, r.out>>

\* C21: each instrumented request holds a controller of its own, and a step
\* of one of two concurrent requests (intercept, subscribe, close, error,
\* timeout, handler failure or completion, unsubscribe) leaves the other's
\* handle, recorded reason, transport listeners, timer and outcome as they
\* were.
C21_HandlePerRequest ==
  [][ /\ (request'.hasController /\ peer'.hasController) =>
            /\ request'.controller # peer'.controller
            /\ request'.controller = request'.id
            /\ peer'.controller = peer'.id
      /\ request' # request => Owned(peer') = Owned(peer)
      /\ peer' # peer => Owned(request') = Owned(request)
    ]_vars

\* request A was closed by its client, B's race is still on with its handle
\* live and its timer armed
C21_Witness ==
  /\ request.first = "close"
  /\ request.phase = "done"
  /\ request.signal.aborted
  /\ peer.phase = "racing"
  /\ peer.hasController
  /\ ~peer.signal.aborted
  /\ peer.timer.armed
  /\ peer.listeners = {"close", "error"}

\* B timed out, and A received its handler's own error afterwards
C21_WitnessOutcome ==
  /\ peer.first = "timeout"
  /\ peer.phase = "done"
  /\ request.first = "handler"
  /\ Len(request.out) = 1
  /\ request.out[1].cls = "Error"
  /\ request.abortReason = Str(<<"Handler error: ", "boom">>)

\* the reason cleanup() fires the handle with
DefaultReason == Or(options.reason, Str(<<"Request terminated">>))

\* C31 (as stated): a request that has terminated has its handle aborted and
\* a reason recorded in request.abortReason; when the handler completes with
\* the handle still live, cleanup fires it with the default reason
\* (options.reason, else 'Request terminated'); and a handle that had already
\* fired does not get the default reason recorded over the earlier one.
C31_Original ==
  [][ /\ request'.phase = "done" =>
           /\ request'.signal.aborted
           /\ request'.abortReason.t = "string"
      /\ (/\ ~request.signal.aborted
          /\ request.phase = "racing"
          /\ request'.phase = "done"
          /\ DeliversOne
          /\ Delivered.kind = "complete") =>
           /\ request'.signal.aborted
           /\ request'.abortReason = DefaultReason
           /\ request'.signal.reason = DefaultReason
      /\ (request.signal.aborted /\ request'.abortReason = DefaultReason) =>
           request.abortReason = DefaultReason
    ]_vars

\* the 'abort' listener of the cancellation branch runs in this step
ObserverRuns == request'.obsCalls = request.obsCalls + 1

\* C32: when the listener of the cancellation branch runs because the
\* interceptor itself fired the handle (close, error, timer, cleanup), the
\* handle is aborted and request.abortReason holds the reason the handle was
\* fired with; a RequestTimeoutException the caller receives in that step
\* carries exactly that reason and finds both already in place.
C32_FireBeforeObserver ==
  [][ (ObserverRuns /\ ~AppAbort) =>
        /\ Fires
        /\ request'.abortReason.t = "string"
        /\ request'.signal.reason = request'.abortReason
        /\ (DeliversOne /\ Delivered.cls = "RequestTimeoutException") =>
             /\ Delivered.text = request'.abortReason.s
             /\ Delivered.aborted
             /\ Delivered.abortReason = request'.abortReason
    ]_vars

\* a transport error fired the handle and the listener failed the race with
\* the reason recorded just before
C32_Witness ==
  /\ request.obsCalls = 1
  /\ request.first = "error"
  /\ request.abortReason = Str(<<"Request error: ", "boom">>)
  /\ request.signal.reason = request.abortReason
  /\ Len(request.out) = 1
  /\ request.out[1].cls = "RequestTimeoutException"
  /\ request.out[1].text = request.abortReason.s

\* the listener ran inside cleanup('Handler error: ...'): its error reached a
\* stopped subscriber and the caller received the handler's own error
C32_WitnessCleanup ==
  /\ request.obsCalls = 1
  /\ request.first = "handler"
  /\ request.abortReason = Str(<<"Handler error: ", "boom">>)
  /\ Len(request.out) = 1
  /\ request.out[1].cls = "Error"

\* who fired the handle, read from the reason the signal holds
FiredByTimeout ==
  /\ request.signal.aborted
  /\ request.signal.reason.t = "string"
  /\ IsTimeoutText(request.signal.reason.s)

FiredByApplication ==
  /\ request.signal.aborted
  /\ request.signal.reason \in {DOMAbortError, Str(<<"app">>)}

\* the log messages of a type
LogsOf(type) == {i \in 1..Len(request.logs) : request.logs[i][2] = type}

\* C33 (as stated): with logging enabled the hook is invoked at most once for
\* a request; a handle fired by the timeout gives exactly one [TIMEOUT]
\* message and no [CLEANUP] message, a handle fired by close, error or
\* cleanup gives exactly one [CLEANUP] message.
C33_Original ==
  options.enableLogging =>
    /\ Len(request.logs) <= 1
    /\ FiredByTimeout =>
         (Cardinality(LogsOf("TIMEOUT")) = 1 /\ LogsOf("CLEANUP") = {})
    /\ (request.signal.aborted /\ ~FiredByTimeout /\ ~FiredByApplication) =>
         Cardinality(LogsOf("CLEANUP")) = 1

\* the race is on under a positive timeout that falls within the clock
RacingUnderTimeout ==
  /\ request.phase = "racing"
  /\ request.timeoutArg.n > 0
  /\ request.subscribedAt + request.timeoutArg.n <= MaxTime

\* C34 (as stated): a race subscribed under a positive effective timeout
\* terminates, with its outcome delivered and cleanup run, whatever the
\* handler does, provided time passes and expired timers run.
C34_Original == RacingUnderTimeout ~> request.phase = "done"

\* C35: once an instrumented request has terminated and cleanup has run, a
\* 'close' or an 'error' event of its transport leaves the handle, the
\* recorded reason, the log messages and what the caller has received as
\* they were.
C35_LateEventsInert ==
  [][ (request.phase = "done" /\ request.hasController /\ (Close \/ TransportError)) =>
        /\ request'.phase = "done"
        /\ request'.signal = request.signal
        /\ request'.abortReason = request.abortReason
        /\ request'.logs = request.logs
        /\ request'.out = request.out
        /\ request'.listeners = request.listeners
    ]_vars

\* the caller unsubscribed, cleanup fired the handle with the default reason,
\* and the client closed the connection afterwards
C35_Witness ==
  /\ request.phase = "done"
  /\ request.first = "close"
  /\ request.out = << >>
  /\ request.signal.aborted
  /\ request.signal.reason = DefaultReason
  /\ request.abortReason = DefaultReason
  /\ request.listeners = {}

\* C36: when the timer of a pending guard expires, that guard alone is
\* rejected, with an AbortError carrying its timeout message; the request's
\* handle is not fired, request.abortReason, the race and what the caller has
\* received stay as they were, and every other guard is left as it was,
\* pending ones pending.
C36_GuardTimeoutLocal ==
  [][ \A i \in 1..Len(request.guards) :
        (GuardTimerFireOf(i) /\ request.guards[i].state = "pending") =>
          /\ request'.guards[i].state = "rejected"
          /\ request'.guards[i].outcome.cls = "AbortError"
          /\ request'.guards[i].outcome.message = TimeoutMessage(request.guards[i])
          /\ request'.signal = request.signal
          /\ request'.abortReason = request.abortReason
          /\ request'.phase = request.phase
          /\ request'.out = request.out
          /\ request'.timer = request.timer
          /\ \A j \in 1..Len(request.guards) :
                j # i => request'.guards[j] = request.guards[j]
    ]_vars

\* the first guard timed out on a live handle while the second, armed on the
\* same handle without a budget, is still pending
C36_Witness ==
  /\ Len(request.guards) = 2
  /\ ~request.signal.aborted
  /\ request.guards[1].ret = "wrapped"
  /\ request.guards[1].first = "timer"
  /\ request.guards[1].state = "rejected"
  /\ request.guards[1].outcome.cls = "AbortError"
  /\ request.guards[2].ret = "wrapped"
  /\ request.guards[2].listener
  /\ request.guards[2].state = "pending"

\* the budget of a call is valid: no operation timeout (unset or 0), or no
\* signal, or no request timeout recorded on the signal, or an operation
\* timeout that does not exceed the recorded one
ValidBudget(given, w) ==
  \/ w.timeout = Undefined
  \/ w.timeout = Num(0)
  \/ ~given
  \/ request.signal.requestTimeout = Undefined
  \/ /\ w.timeout.t = "number"
     /\ request.signal.requestTimeout.t = "number"
     /\ w.timeout.n <= request.signal.requestTimeout.n

\* C37: a withAbort call with a valid budget does not throw: it returns the
\* promise itself (no signal, no timeout), a promise already rejected with
\* an AbortError (signal given and aborted), or the wrapping promise.
C37_ValidBudgetNeverThrows ==
  [][ \A given \in BOOLEAN, w \in WithAbortOptions :
        (WithAbortOf(given, w) /\ ValidBudget(given, w)) =>
           /\ Called.ret # "threw"
           /\ Called.outcome.cls # "Error"
           /\ Called.ret =
                IF ~given /\ ~Truthy(w.timeout) THEN "same"
                ELSE IF given /\ request.signal.aborted THEN "rejected"
                ELSE "wrapped"
    ]_vars

\* an operation timeout equal to the request timeout recorded on the signal:
\* the call went on to the race
C37_Witness ==
  /\ Len(request.guards) = 1
  /\ request.guards[1].given
  /\ request.signal.requestTimeout.t = "number"
  /\ request.guards[1].timeout = request.signal.requestTimeout
  /\ request.guards[1].ret = "wrapped"

\* a budget on a signal that records no request timeout
C37_WitnessUnrecorded ==
  /\ Len(request.guards) = 1
  /\ request.guards[1].given
  /\ request.signal.requestTimeout = Undefined
  /\ request.guards[1].timeout.n > 0
  /\ request.guards[1].ret = "wrapped"

\* C38 (as stated): the signal of an instrumented request records a request
\* timeout exactly when the resolved effective timeout is greater than 0,
\* which is when the timeout branch arms a timer at the subscription.
C38_Original ==
  request.hasController =>
    /\ (request.signal.requestTimeout # Undefined) <=>
         (ExpectedTimeout.t = "number" /\ ExpectedTimeout.n > 0)
    /\ request.timer.armed => request.signal.requestTimeout # Undefined

\* C39 (as stated): a wrapping guard that is still pending when the callback
\* of its settled promise runs takes the promise's outcome as it is: the
\* value it resolved with, or the very reason it rejected with, an Error
\* instance or not, as the promise returned untouched would.
C39_Original ==
  [][ \A i \in 1..Len(request.guards) :
        LET g == request.guards[i]
            h == request'.guards[i]
        IN (g.ret = "wrapped" /\ g.state = "pending" /\ GuardReactionOf(i)) =>
             /\ h.state = IF g.operation = "resolved" THEN "fulfilled" ELSE "rejected"
             /\ h.outcome = g.settled
    ]_vars

\* C40: a withAbort call over budget on a signal that is already aborted
\* throws the configuration error from the call itself: no promise is
\* returned, rejected with an AbortError or otherwise.
C40_BudgetBeforeAborted ==
  [][ \A w \in WithAbortOptions :
        (WithAbortOf(TRUE, w) /\ OverBudget(w) /\ request.signal.aborted) =>
           /\ Called.ret = "threw"
           /\ Called.outcome.cls = "Error"
           /\ Called.outcome.message[1] = "Operation timeout ("
           /\ Called.state = "pending"
           /\ Unarmed(Called)
    ]_vars

\* the client closed the connection before the race was subscribed; the
\* handler, running with the handle aborted, asked for more than the request
\* timeout and the call threw
C40_Witness ==
  /\ request.phase = "racing"
  /\ request.handler = "pending"
  /\ request.first = "close"
  /\ request.signal.aborted
  /\ request.signal.requestTimeout.n > 0
  /\ Len(request.guards) = 1
  /\ request.guards[1].given
  /\ request.guards[1].ret = "threw"
  /\ request.guards[1].timeout.n > request.signal.requestTimeout.n
  /\ request.guards[1].state = "pending"

=========================================================================
